---- MODULE Spec2Model ----
(***************************************************************************)
(* Battery / thermal co-simulation scripts of the repository:              *)
(*   generate_comprehensive_lives.py  get_scenario_power,                  *)
(*                                    simulate_scenario_fixed (truncate),  *)
(*                                    make_power_breakdown_gif (composer)  *)
(*   generate_more_gifs.py            simulate_scenario (relax)            *)
(*   generate_live_gifs.py            get_live_data, make_stochastic_gif   *)
(*                                                                         *)
(* Arithmetic.  The scripts compute in double precision.  Here every real  *)
(* quantity is a fixed-point integer with six decimals: watts, degrees     *)
(* Celsius, hours and the state of charge are held in millionths (Micro),  *)
(* so soc = 1.0 is the integer Micro.  A quotient is rounded toward zero   *)
(* (Quot), a product of two fixed-point values is formed without leaving   *)
(* 32 bits (MulDiv).  Python's 0-based indices are kept: At(a, k) is a[k]. *)
(*                                                                         *)
(* Randomness.  A draw of np.random.normal is a number of standard         *)
(* deviations taken from SigmaDraws.  The draws of one call of a function  *)
(* are a tape of two draws read cyclically; every tape is a possible       *)
(* outcome.  The mean of an ensemble is rounded as np.mean rounds it, on   *)
(* a significand of MANT_BITS bits.                                        *)
(***************************************************************************)
EXTENDS Integers, Sequences, FiniteSets, TLC

VARIABLES
    fn,       \* the function under execution
    arg,      \* its arguments
    pc,       \* where it stands
    err,      \* the exception it raised, "-" if none
    i, j,     \* loop indices
    t_h,      \* time axis
    p_sys,    \* power profile of simulate_scenario / get_live_data
    p,        \* the power the integrator's current step used (p, p_bat)
    soc, temp,
    tape,     \* the draws np.random.normal returns in the current call
    draws,    \* the tapes of the get_live_data calls made so far
    runs,     \* make_stochastic_gif: run_soc of the runs made so far
    mean_y,   \* make_stochastic_gif.update: the mean line
    p_start, p_end,   \* make_power_breakdown_gif: the segment's end points
    comp,     \* all_p_cpu, all_p_scr, all_p_mdm, all_p_misc
    labels

vars == <<fn, arg, pc, err, i, j, t_h, p_sys, p, soc, temp,
          tape, draws, runs, mean_y, p_start, p_end, comp, labels>>

----------------------------------------------------------------------------
(* Fixed-point helpers *)

Micro == 1000 * 1000

Max(a, b) == IF a >= b THEN a ELSE b

Abs(a) == IF a >= 0 THEN a ELSE -a

\* a / b rounded toward zero; b # 0
Quot(a, b) ==
    LET q == Abs(a) \div Abs(b)
    IN  IF (a >= 0) = (b > 0) THEN q ELSE -q

\* <<q, r>> with a * b = q * c + r and 0 <= r < c, for a, b >= 0 and c > 0,
\* by binary long multiplication so that no intermediate exceeds 2 * c + a
RECURSIVE MulDivQR(_, _, _)
MulDivQR(a, b, c) ==
    IF b = 0 THEN <<0, 0>>
    ELSE LET h == MulDivQR(a, b \div 2, c)
             t == 2 * h[2] + (b % 2) * a
         IN  <<2 * h[1] + (t \div c), t % c>>

\* a * b / c rounded toward zero; c > 0
MulDiv(a, b, c) ==
    LET q == MulDivQR(Abs(a), Abs(b), c)[1]
    IN  IF (a >= 0) = (b >= 0) THEN q ELSE -q

At(a, k) == a[k + 1]

Put(a, k, v) == [a EXCEPT ![k + 1] = v]

\* faulty variant: the slice that keeps everything
Take_Whole(a, k) == a

\* a[:k]
Take(a, k) == SubSeq(a, 1, IF k < Len(a) THEN k ELSE Len(a))

\* np.zeros(n)
Zeros(n) == [k \in 1..n |-> 0]


----------------------------------------------------------------------------
(* generate_comprehensive_lives.py: parameters, in millionths *)

E_MAX_WH == 22
C_TH == 2000
\* R_TH = 2.2 = R_TH_NUM / R_TH_DEN
R_TH_NUM == 22
R_TH_DEN == 10
T_AMB == 25000000
T_REF == 25000000
P_CPU_STATIC == 400000
K_CPU_BASE == 5
\* ALPHA_CPU_T = 0.002 = 1 / ALPHA_CPU_T_INV
ALPHA_CPU_T_INV == 500
GAMMA_CPU == 2

\* scenarios_params; b, U, Rdl, Rul, Srx, Stx, f_g in thousandths
scenarios_params ==
    [Idle       |-> [u_s |-> 0, b |-> 0,   U |-> 50,   Rdl |-> 100,  Rul |-> 50,
                     Srx |-> 200, Stx |-> 200, f_g |-> 10],
     Browsing   |-> [u_s |-> 1, b |-> 400, U |-> 800,  Rdl |-> 5000, Rul |-> 500,
                     Srx |-> 300, Stx |-> 300, f_g |-> 20],
     Video      |-> [u_s |-> 1, b |-> 600, U |-> 1000, Rdl |-> 6000, Rul |-> 500,
                     Srx |-> 300, Stx |-> 300, f_g |-> 20],
     Gaming     |-> [u_s |-> 1, b |-> 700, U |-> 1605, Rdl |-> 1000, Rul |-> 200,
                     Srx |-> 250, Stx |-> 250, f_g |-> 10],
     Navigation |-> [u_s |-> 1, b |-> 600, U |-> 900,  Rdl |-> 2000, Rul |-> 200,
                     Srx |-> 350, Stx |-> 350, f_g |-> 800]]

ScenarioNames == DOMAIN scenarios_params

\* s["u_s"] * (200.0 * 0.007 * s["b"] + 0.20)
ScreenPower(s) == s.u_s * (200 * 7 * s.b + 200000)

\* K_CPU_BASE * U**GAMMA_CPU, U in thousandths and GAMMA_CPU = 2
DynPower(s) == K_CPU_BASE * s.U * s.U

\* P_CPU_STATIC + K_CPU_BASE * U**GAMMA_CPU * (1 + ALPHA_CPU_T * (T - T_REF))
ProcPower(s, T) ==
    P_CPU_STATIC + DynPower(s) + MulDiv(DynPower(s), T - T_REF, ALPHA_CPU_T_INV * Micro)

\* 0.40 + (Rdl*0.05 + Rul*0.08) + (Srx*0.25 + Stx*0.25)
ModemPower(s) == 400000 + (s.Rdl * 50 + s.Rul * 80) + (s.Srx * 250 + s.Stx * 250)

\* (0.2 + 0.063 * f_g) if u_s > 0 else 0
GpsPower(s) == IF s.u_s > 0 THEN 200000 + 63 * s.f_g ELSE 0

\* 0.25 + 0.1
MiscPower == 250000 + 100000

\* get_scenario_power(s_name, T_curr), s_name a key of scenarios_params
get_scenario_power(s_name, T_curr) ==
    LET s == scenarios_params[s_name]
    IN  ScreenPower(s) + ProcPower(s, T_curr) + ModemPower(s) + GpsPower(s) + MiscPower

----------------------------------------------------------------------------
(* Inputs *)

\* longest duration, in minutes, tried besides the scripts' own 6 h and 12 h
MaxDuration == 90
\* simulate_scenario_fixed(s_name, duration_h=12)
DEFAULT_DURATION_H == 12
\* simulate_scenario_fixed(m, duration_h=6) in make_stress_comparison_gif
STRESS_DURATION_H == 6

\* a name that is no key of scenarios_params
UnknownNames == {"Sleep"}

\* every call carries the same record; a field a function does not take is 0 or "-".
\* duration is duration_h in minutes.
Call(f, s_name, duration, dt_s, e_max, t_amb, p_profile, n_runs, checkpoints) ==
    [fn |-> f, s_name |-> s_name, duration |-> duration, dt_s |-> dt_s,
     e_max |-> e_max, t_amb |-> t_amb, p_profile |-> p_profile, n_runs |-> n_runs,
     checkpoints |-> checkpoints]

FixedDurations == (0..MaxDuration) \cup {DEFAULT_DURATION_H * 60, STRESS_DURATION_H * 60}

FixedCalls ==
    {Call("simulate_scenario_fixed", n, d, 0, 0, 0, "-", 0, <<>>) :
        n \in ScenarioNames \cup UnknownNames, d \in FixedDurations}

----------------------------------------------------------------------------
(* generate_comprehensive_lives.py: simulate_scenario_fixed *)

\* steps = int(duration_h * 60)
Steps(a) == a.duration

\* np.linspace(0, duration_h, steps), in millionths of an hour
Linspace(duration, steps) ==
    [k \in 1..steps |->
        IF steps = 1 THEN 0 ELSE MulDiv(Quot(duration * Micro, 60), k - 1, steps - 1)]

\* faulty variant: the clamp max(0, .) left out
FixedSocNext_NoClamp(soc_i, pw) == soc_i - Quot(pw, E_MAX_WH * 60)

\* faulty variant: the factor 1/60 (minutes to hours) left out
FixedSocNext_NoMinute(soc_i, pw) == Max(0, soc_i - Quot(pw, E_MAX_WH))

\* soc[i] - (p / E_MAX_WH) * (1/60), clamped at 0
FixedSocNext(soc_i, pw) == Max(0, soc_i - Quot(pw, E_MAX_WH * 60))

\* faulty variant: dT subtracted
FixedTempNext_Cooling(temp_i, pw) ==
    temp_i - Quot((pw - Quot((temp_i - T_AMB) * R_TH_DEN, R_TH_NUM)) * 60, C_TH)

\* temp[i] + (p - (temp[i] - T_AMB)/R_TH) * (60 / C_TH)
FixedTempNext(temp_i, pw) ==
    temp_i + Quot((pw - Quot((temp_i - T_AMB) * R_TH_DEN, R_TH_NUM)) * 60, C_TH)

\* lines 42-48: the buffers; soc[0] = 1.0 on an empty buffer raises IndexError
FixedAlloc ==
    /\ fn = "simulate_scenario_fixed" /\ pc = "start"
    /\ IF Steps(arg) = 0
       THEN /\ pc' = "raised" /\ err' = "IndexError"
            /\ UNCHANGED <<t_h, soc, temp>>
       ELSE /\ t_h' = Linspace(arg.duration, Steps(arg))
            /\ soc' = Put(Zeros(Steps(arg)), 0, Micro)
            /\ temp' = Put(Zeros(Steps(arg)), 0, T_AMB)
            /\ pc' = "loop" /\ UNCHANGED err
    /\ i' = 0 /\ UNCHANGED p
    /\ UNCHANGED <<fn, arg, j, p_sys, tape, draws, runs, mean_y, p_start, p_end, comp, labels>>

\* lines 49-56: one iteration of the loop; the lookup in get_scenario_power
\* raises KeyError; depletion cuts the three series and breaks to the return
FixedStep ==
    /\ fn = "simulate_scenario_fixed" /\ pc = "loop" /\ i < Steps(arg) - 1
    /\ IF arg.s_name \notin ScenarioNames
       THEN /\ pc' = "raised" /\ err' = "KeyError"
            /\ UNCHANGED <<i, t_h, p, soc, temp>>
       ELSE LET pw == get_scenario_power(arg.s_name, At(temp, i))
                soc1 == Put(soc, i + 1, FixedSocNext(At(soc, i), pw))
                temp1 == Put(temp, i + 1, FixedTempNext(At(temp, i), pw))
            IN  /\ p' = pw
                /\ IF At(soc1, i + 1) <= 0
                   THEN /\ t_h' = Take(t_h, i + 2)
                        /\ soc' = Take(soc1, i + 2)
                        /\ temp' = Take(temp1, i + 2)
                        /\ pc' = "returned" /\ UNCHANGED <<i, err>>
                   ELSE /\ soc' = soc1 /\ temp' = temp1
                        /\ i' = i + 1 /\ UNCHANGED <<pc, err, t_h>>
    /\ UNCHANGED <<fn, arg, j, p_sys, tape, draws, runs, mean_y, p_start, p_end, comp, labels>>

\* line 57: the loop ran out of steps
FixedReturn ==
    /\ fn = "simulate_scenario_fixed" /\ pc = "loop" /\ i >= Steps(arg) - 1
    /\ pc' = "returned"
    /\ UNCHANGED <<fn, arg, err, i, j, t_h, p_sys, p, soc, temp,
                   tape, draws, runs, mean_y, p_start, p_end, comp, labels>>

----------------------------------------------------------------------------
(* generate_more_gifs.py: simulate_scenario *)

more_P_IDLE == 250000
more_C_TH == 120
\* R_TH = 3.2 = more_R_TH_NUM / more_R_TH_DEN
more_R_TH_NUM == 32
more_R_TH_DEN == 10
\* defaults of simulate_scenario: dt_s=60, t_amb=25.0, e_max=22.0
more_DT_S == 60
more_T_AMB == 25000000
more_E_MAX == 22
\* t_amb=40.0 in make_thermal_stress_gif
more_T_HOT == 40000000

\* durations tried are 0, 15, ..., 15 * MaxQuarters minutes
MaxQuarters == 10

\* the profiles the script passes, and None
Profiles == {"None", "normal_profile", "low_power_profile", "heavy_profile",
             "gaming_profile"}

MoreCalls ==
    {Call("simulate_scenario", "-", 15 * q, dt, e, ta, pr, 0, <<>>) :
        q \in 0..MaxQuarters, dt \in {-more_DT_S, 0, more_DT_S, 600, 768, 900},
        e \in {-1, 0, 1, more_E_MAX}, ta \in {more_T_AMB, more_T_HOT},
        pr \in Profiles}

\* len(np.arange(0, stop, step)) for step # 0
ArangeLen(stop, step) ==
    IF step > 0 /\ stop > 0 THEN (stop + step - 1) \div step ELSE 0

\* t_s = np.arange(0, duration_h * 3600, dt_s); t_h = t_s / 3600
TimeAxis(duration, dt_s) ==
    [k \in 1..ArangeLen(duration * 60, dt_s) |-> MulDiv((k - 1) * dt_s, Micro, 3600)]

\* p_profile(t_h) at one sample; None is np.full_like(t_h, 2.0)
ProfileAt(name, t) ==
    CASE name = "None"              -> 2000000
      [] name = "normal_profile"    -> IF t > 2 * Micro THEN 4500000 ELSE 2500000
      [] name = "low_power_profile" -> IF t > 2 * Micro THEN 2000000 ELSE 1500000
      [] name = "heavy_profile"     -> 3500000
      [] name = "gaming_profile"    -> 5500000

\* soc[i] - (p_bat / e_max) * (dt_s/3600), clamped at 0; p_bat > 0, and
\* p_bat / 0 is inf in numpy (a warning, no exception), so that the clamp gives 0
MoreSocNext(soc_i, p_bat, dt_s, e_max) ==
    IF e_max = 0 THEN 0
    ELSE LET d == MulDiv(p_bat, dt_s, 3600 * Abs(e_max))
         IN  Max(0, soc_i - (IF e_max > 0 THEN d ELSE -d))

\* (temp - t_amb) / (R_TH * C_TH)
MoreLoss(temp_i, t_amb) ==
    Quot(temp_i - t_amb, (more_R_TH_NUM * more_C_TH) \div more_R_TH_DEN)

\* faulty variant: the idle draw left out of the heat generation
MoreTempNext_NoIdleHeat(temp_i, p_bat, dt_s, t_amb) ==
    temp_i + (Quot(p_bat - more_P_IDLE, more_C_TH) - MoreLoss(temp_i, t_amb)) * dt_s

\* temp[i] + ((p_bat / C_TH) - (temp[i] - t_amb) / (R_TH * C_TH)) * dt_s
MoreTempNext(temp_i, p_bat, dt_s, t_amb) ==
    temp_i + (Quot(p_bat, more_C_TH) - MoreLoss(temp_i, t_amb)) * dt_s

\* faulty variant: the sign of the loss term lost
MoreRelaxNext_Heating(temp_j, dt_s, t_amb) ==
    temp_j + MoreLoss(temp_j, t_amb) * dt_s

\* temp[j] + (-(temp[j] - t_amb) / (R_TH * C_TH)) * dt_s
MoreRelaxNext(temp_j, dt_s, t_amb) ==
    temp_j + (0 - MoreLoss(temp_j, t_amb)) * dt_s

\* soc[i+1:] = 0
ZeroFrom(a, k) == [n \in 1..Len(a) |-> IF n >= k + 1 THEN 0 ELSE a[n]]

\* lines 23-34: np.arange raises on a zero step; an empty axis (dt_s < 0 or
\* duration_h = 0) makes soc[0] = 1.0 raise IndexError
MoreSetup ==
    /\ fn = "simulate_scenario" /\ pc = "start"
    /\ IF arg.dt_s = 0
       THEN /\ pc' = "raised" /\ err' = "ZeroDivisionError"
            /\ UNCHANGED <<t_h, p_sys, soc, temp>>
       ELSE LET axis == TimeAxis(arg.duration, arg.dt_s)
                n == Len(axis)
            IN  /\ t_h' = axis
                /\ p_sys' = [k \in 1..n |-> ProfileAt(arg.p_profile, axis[k])]
                /\ IF n = 0
                   THEN /\ pc' = "raised" /\ err' = "IndexError"
                        /\ UNCHANGED <<soc, temp>>
                   ELSE /\ soc' = Put(Zeros(n), 0, Micro)
                        /\ temp' = Put(Zeros(n), 0, arg.t_amb)
                        /\ pc' = "loop" /\ UNCHANGED err
    /\ i' = 0
    /\ UNCHANGED <<fn, arg, j, p, tape, draws, runs, mean_y, p_start, p_end, comp, labels>>

\* lines 36-46: one iteration of the outer loop; on depletion soc[i+1:] = 0 and
\* control passes to the relaxation loop
MoreStep ==
    /\ fn = "simulate_scenario" /\ pc = "loop" /\ i < Len(t_h) - 1
    /\ LET p_bat == At(p_sys, i) + more_P_IDLE
           soc1 == Put(soc, i + 1, MoreSocNext(At(soc, i), p_bat, arg.dt_s, arg.e_max))
       IN  /\ p' = p_bat
           /\ temp' = Put(temp, i + 1, MoreTempNext(At(temp, i), p_bat, arg.dt_s, arg.t_amb))
           /\ IF At(soc1, i + 1) <= 0
              THEN /\ soc' = ZeroFrom(soc1, i + 1)
                   /\ pc' = "relax" /\ j' = i + 1 /\ UNCHANGED i
              ELSE /\ soc' = soc1
                   /\ i' = i + 1 /\ UNCHANGED <<pc, j>>
    /\ UNCHANGED <<fn, arg, err, t_h, p_sys, tape, draws, runs, mean_y, p_start, p_end,
                   comp, labels>>

\* lines 48-50: one iteration of the relaxation loop
MoreRelax ==
    /\ fn = "simulate_scenario" /\ pc = "relax" /\ j < Len(t_h) - 1
    /\ temp' = Put(temp, j + 1, MoreRelaxNext(At(temp, j), arg.dt_s, arg.t_amb))
    /\ j' = j + 1
    /\ UNCHANGED <<fn, arg, pc, err, i, t_h, p_sys, p, soc, tape, draws, runs, mean_y,
                   p_start, p_end, comp, labels>>

\* lines 51-53: either loop has run out
MoreReturn ==
    /\ fn = "simulate_scenario"
    /\ IF pc = "loop" THEN i >= Len(t_h) - 1
       ELSE pc = "relax" /\ j >= Len(t_h) - 1
    /\ pc' = "returned"
    /\ UNCHANGED <<fn, arg, err, i, j, t_h, p_sys, p, soc, temp, tape, draws, runs, mean_y,
                   p_start, p_end, comp, labels>>

----------------------------------------------------------------------------
(* Draws of np.random.normal *)

\* draws tried, in standard deviations
SigmaDraws == {-12, 0, 1}

\* the draws of one call repeat with period two: a tape is a pair of draws
Tapes == {<<a, b>> : a \in SigmaDraws, b \in SigmaDraws}

\* the k-th draw (k = 0, 1, ...) of a call whose draws are the tape q
Draw(q, k) == q[(k % Len(q)) + 1]

----------------------------------------------------------------------------
(* generate_live_gifs.py: get_live_data, make_stochastic_gif *)

live_E_MAX_WH == 22
live_P_IDLE == 250000
live_C_TH == 120
\* R_TH = 3.2 = live_R_TH_NUM / live_R_TH_DEN
live_R_TH_NUM == 32
live_R_TH_DEN == 10
live_T_AMB == 25000000
\* make_stochastic_gif: duration_h = 4, dt_s = 60, frames every 5 samples
live_DURATION_H == 4
live_DT_S == 60
live_FRAME_STRIDE == 5

\* longest ensemble, and longest duration in hours, tried
MaxRuns == 3
MaxLiveHours == 10

\* make_stochastic_gif runs get_live_data(duration_h, dt_s) n_runs times; the
\* script's own ensemble is (4, 60, 20)
LiveCalls ==
    {Call("make_stochastic_gif", "-", d, dt, 0, 0, "-", 1, <<>>) :
        d \in {live_DURATION_H * 60, MaxLiveHours * 60}, dt \in {live_DT_S, 720}}
    \cup {Call("make_stochastic_gif", "-", live_DURATION_H * 60, 720, 0, 0, "-", n, <<>>) :
            n \in 1..MaxRuns}

\* lines 28-32: Idle, Video, Gaming, Navigation by the hour
LivePhasePower(t) ==
    IF t < Micro THEN 500000
    ELSE IF t < 2 * Micro THEN 1800000
    ELSE IF t < 3 * Micro THEN 4500000
    ELSE 2500000

\* lines 35-36: p_sys += normal(0, 0.1 * p_sys); p_sys = maximum(p_sys, 0.1),
\* at one sample, z the draw in standard deviations
LiveNoisy(pw, z) == Max(pw + Quot(z * pw, 10), 100000)

\* lines 23-36 for the draws q
LiveProfile(axis, q) ==
    [k \in 1..Len(axis) |-> LiveNoisy(LivePhasePower(axis[k]), Draw(q, k - 1))]

\* soc[i] - (p_bat / E_MAX_WH) * (dt_s/3600)
LiveSocNext(soc_i, p_bat, dt_s) == soc_i - MulDiv(p_bat, dt_s, 3600 * live_E_MAX_WH)

\* temp[i] + ((p_bat / C_TH) - (temp[i] - T_AMB) / (R_TH * C_TH)) * dt_s
LiveTempNext(temp_i, p_bat, dt_s) ==
    temp_i + (Quot(p_bat, live_C_TH)
              - Quot(temp_i - live_T_AMB, (live_R_TH_NUM * live_C_TH) \div live_R_TH_DEN))
             * dt_s

\* lines 23-40: the axis, the noisy profile, the soc buffer
LiveSetup ==
    /\ fn = "make_stochastic_gif" /\ pc = "start"
    /\ \E q \in Tapes :
         LET axis == TimeAxis(arg.duration, arg.dt_s)
         IN  /\ tape' = q /\ draws' = Append(draws, q)
             /\ t_h' = axis
             /\ p_sys' = LiveProfile(axis, q)
             /\ IF Len(axis) = 0
                THEN /\ pc' = "raised" /\ err' = "IndexError" /\ UNCHANGED soc
                ELSE /\ soc' = Put(Zeros(Len(axis)), 0, Micro)
                     /\ pc' = "soc_loop" /\ UNCHANGED err
    /\ i' = 0 /\ temp' = <<>>
    /\ UNCHANGED <<fn, arg, j, p, runs, mean_y, p_start, p_end, comp, labels>>

\* lines 41-43: one iteration of the SOC loop
LiveSocStep ==
    /\ fn = "make_stochastic_gif" /\ pc = "soc_loop" /\ i < Len(t_h) - 1
    /\ p' = At(p_sys, i) + live_P_IDLE
    /\ soc' = Put(soc, i + 1, LiveSocNext(At(soc, i), p', arg.dt_s))
    /\ i' = i + 1
    /\ UNCHANGED <<fn, arg, pc, err, j, t_h, p_sys, temp, tape, draws, runs, mean_y,
                   p_start, p_end, comp, labels>>

\* lines 46-47: the temperature buffer
LiveTempStart ==
    /\ fn = "make_stochastic_gif" /\ pc = "soc_loop" /\ i >= Len(t_h) - 1
    /\ temp' = Put(Zeros(Len(t_h)), 0, live_T_AMB)
    /\ i' = 0 /\ pc' = "temp_loop"
    /\ UNCHANGED <<fn, arg, err, j, t_h, p_sys, p, soc, tape, draws, runs, mean_y,
                   p_start, p_end, comp, labels>>

\* lines 48-51: one iteration of the temperature loop
LiveTempStep ==
    /\ fn = "make_stochastic_gif" /\ pc = "temp_loop" /\ i < Len(t_h) - 1
    /\ p' = At(p_sys, i) + live_P_IDLE
    /\ temp' = Put(temp, i + 1, LiveTempNext(At(temp, i), p', arg.dt_s))
    /\ i' = i + 1
    /\ UNCHANGED <<fn, arg, pc, err, j, t_h, p_sys, soc, tape, draws, runs, mean_y,
                   p_start, p_end, comp, labels>>

\* line 53: get_live_data returns t_h, p_sys, soc, temp
LiveReturn ==
    /\ fn = "make_stochastic_gif" /\ pc = "temp_loop" /\ i >= Len(t_h) - 1
    /\ pc' = "live_returned"
    /\ UNCHANGED <<fn, arg, err, i, j, t_h, p_sys, p, soc, temp, tape, draws, runs, mean_y,
                   p_start, p_end, comp, labels>>

\* make_stochastic_gif lines 144-146: runs.append(run_soc), then the next run
\* or the animation
EnsembleAppend ==
    /\ fn = "make_stochastic_gif" /\ pc = "live_returned"
    /\ runs' = Append(runs, soc)
    /\ pc' = IF Len(runs') < arg.n_runs THEN "start" ELSE "animate"
    /\ j' = 0
    /\ UNCHANGED <<fn, arg, err, i, t_h, p_sys, p, soc, temp, tape, draws, mean_y,
                   p_start, p_end, comp, labels>>

\* line 173: the line of one run at a frame, y = runs[i][:frame] * 100
RunLine(r, frame) == [k \in 1..Len(Take(runs[r], frame)) |-> runs[r][k] * 100]

\* np.mean works in binary floating point: a sum of several runs needs more
\* bits than one run and loses the low ones.  Values are held here in
\* millionths with a significand of MANT_BITS bits, the narrowest that holds
\* soc = 1 exactly, and rounded to nearest, ties to even.
MANT_BITS == CHOOSE b \in 1..30 : 2^(b - 1) <= Micro /\ Micro < 2^b

\* the multiple of q nearest to x >= 0, ties to the even multiple
NearestEven(x, q) ==
    LET m == x \div q
        r == x % q
    IN  IF 2 * r < q THEN m * q
        ELSE IF 2 * r > q THEN (m + 1) * q
        ELSE IF m % 2 = 0 THEN m * q ELSE (m + 1) * q

\* x rounded to MANT_BITS significant bits
RoundSig(x) ==
    LET e == CHOOSE n \in 0..(30 - MANT_BITS) : Abs(x) < 2^(MANT_BITS + n)
                /\ (n > 0 => Abs(x) >= 2^(MANT_BITS + n - 1))
        y == NearestEven(Abs(x), 2^e)
    IN  IF x < 0 THEN -y ELSE y

\* a / n rounded to the nearest millionth, ties to even, n > 0
RoundDiv(a, n) ==
    LET m == Abs(a) \div n
        r == Abs(a) % n
        y == IF 2 * r < n THEN m
             ELSE IF 2 * r > n THEN m + 1
             ELSE IF m % 2 = 0 THEN m ELSE m + 1
    IN  IF a < 0 THEN -y ELSE y

\* np.add.reduce along axis 0: the first k rows added one after the other
RECURSIVE FloatSum(_, _)
FloatSum(a, k) == IF k = 1 THEN a[1] ELSE RoundSig(FloatSum(a, k - 1) + a[k])

\* faulty variant: the sum divided by one more than the number of runs
MeanLine_OffByOne(rs, frame) ==
    [k \in 1..Len(Take(rs[1], frame)) |->
        RoundDiv(FloatSum([r \in 1..Len(rs) |-> rs[r][k]], Len(rs)), Len(rs) + 1) * 100]

\* line 178: np.mean([r[:frame] for r in runs], axis=0) * 100
MeanLine(rs, frame) ==
    [k \in 1..Len(Take(rs[1], frame)) |->
        RoundDiv(FloatSum([r \in 1..Len(rs) |-> rs[r][k]], Len(rs)), Len(rs)) * 100]

\* lines 169-181: update(frame) for frame in np.arange(0, len(t_h), 5)
Update ==
    /\ fn = "make_stochastic_gif" /\ pc = "animate" /\ j < Len(t_h)
    /\ mean_y' = IF j > 0 THEN MeanLine(runs, j) ELSE mean_y
    /\ j' = j + live_FRAME_STRIDE
    /\ UNCHANGED <<fn, arg, pc, err, i, t_h, p_sys, p, soc, temp, tape, draws, runs,
                   p_start, p_end, comp, labels>>

----------------------------------------------------------------------------
(* generate_comprehensive_lives.py: make_power_breakdown_gif *)

TEMP_SIM == 35000000
PAD_FRAMES == 40
\* j = np.random.normal(1.0, 0.015), in thousandths: 1000 + 15 per deviation
JITTER_STD == 15

\* longest segment of the single-segment sequences tried
MaxSegDur == 10

\* line 165
Checkpoints ==
    << <<"Idle", 30>>, <<"Browsing", 50>>, <<"Gaming", 70>>, <<"Video", 50>>,
       <<"Idle", 30>> >>

\* the script's sequence, and each of its transitions alone with a short segment
CheckpointChoices ==
    {Checkpoints}
    \cup { << <<Checkpoints[k][1], 0>>, <<Checkpoints[k + 1][1], d>> >> :
             k \in 1..(Len(Checkpoints) - 1), d \in 1..MaxSegDur }

ComposeCalls ==
    {Call("make_power_breakdown_gif", "-", 0, 0, 0, 0, "-", 0, c) :
        c \in CheckpointChoices}

\* faulty variant: p_misc without the 0.25 + 0.1 floor
get_comp_power_NoMisc(s_name) ==
    LET s_data == scenarios_params[s_name]
    IN  <<ProcPower(s_data, TEMP_SIM), ScreenPower(s_data), ModemPower(s_data),
          GpsPower(s_data)>>

\* get_comp_power(s_name): <<p_cpu, p_scr, p_mdm, p_misc>> at temp_sim
get_comp_power(s_name) ==
    LET s_data == scenarios_params[s_name]
    IN  <<ProcPower(s_data, TEMP_SIM), ScreenPower(s_data), ModemPower(s_data),
          MiscPower + GpsPower(s_data)>>

\* faulty variant: alpha = (step + 1) / dur
Interp_OffByOne(a, b, step, dur) == a + Quot((b - a) * (step + 1), dur)

\* p_start[n] + (p_end[n] - p_start[n]) * alpha, alpha = step / dur
Interp(a, b, step, dur) == a + Quot((b - a) * step, dur)

\* c * j for the draw z
Jitter(c, z) == MulDiv(c, 1000 + JITTER_STD * z, 1000)

\* faulty variant: alpha >= 0.8 starts the last block
Label_Inclusive(start_mode, end_mode, step, dur) ==
    IF 5 * step < dur THEN <<"MODE", start_mode>>
    ELSE IF 5 * step >= 4 * dur THEN <<"MODE", end_mode>>
    ELSE <<"SWITCHING TO", end_mode>>

\* lines 187-189, alpha = step / dur against 0.2 and 0.8
Label(start_mode, end_mode, step, dur) ==
    IF 5 * step < dur THEN <<"MODE", start_mode>>
    ELSE IF 5 * step > 4 * dur THEN <<"MODE", end_mode>>
    ELSE <<"SWITCHING TO", end_mode>>

\* lines 176-177 for segment n (0-based)
StartMode(a, n) == a.checkpoints[n + 1][1]
EndMode(a, n) == a.checkpoints[n + 2][1]
Dur(a, n) == a.checkpoints[n + 2][2]

\* lines 165-167 and the first pass of lines 176-178
ComposeSetup ==
    /\ fn = "make_power_breakdown_gif" /\ pc = "start"
    /\ tape' \in Tapes
    /\ i' = 0 /\ j' = 0
    /\ p_start' = get_comp_power(StartMode(arg, 0))
    /\ p_end' = get_comp_power(EndMode(arg, 0))
    /\ pc' = "segment"
    /\ UNCHANGED <<fn, arg, err, t_h, p_sys, p, soc, temp, draws, runs, mean_y, comp,
                   labels>>

\* lines 179-189: one step of the segment
ComposeStep ==
    /\ fn = "make_power_breakdown_gif" /\ pc = "segment" /\ j < Dur(arg, i)
    /\ LET z == Draw(tape, Len(labels))
           v(n) == Jitter(Interp(p_start[n], p_end[n], j, Dur(arg, i)), z)
       IN  comp' = [cpu  |-> Append(comp.cpu, v(1)),
                    scr  |-> Append(comp.scr, v(2)),
                    mdm  |-> Append(comp.mdm, v(3)),
                    misc |-> Append(comp.misc, v(4))]
    /\ labels' = Append(labels, Label(StartMode(arg, i), EndMode(arg, i), j, Dur(arg, i)))
    /\ j' = j + 1
    /\ UNCHANGED <<fn, arg, pc, err, i, t_h, p_sys, p, soc, temp, tape, draws, runs, mean_y,
                   p_start, p_end>>

\* lines 175-178: the next segment
ComposeNextSegment ==
    /\ fn = "make_power_breakdown_gif" /\ pc = "segment" /\ j >= Dur(arg, i)
    /\ i + 1 < Len(arg.checkpoints) - 1
    /\ i' = i + 1 /\ j' = 0
    /\ p_start' = get_comp_power(StartMode(arg, i + 1))
    /\ p_end' = get_comp_power(EndMode(arg, i + 1))
    /\ UNCHANGED <<fn, arg, pc, err, t_h, p_sys, p, soc, temp, tape, draws, runs, mean_y,
                   comp, labels>>

\* a followed by n copies of its last element
Padded(a, n) == a \o [k \in 1..n |-> a[Len(a)]]

\* lines 190-191: the last frame held for 40 frames
ComposePad ==
    /\ fn = "make_power_breakdown_gif" /\ pc = "segment" /\ j >= Dur(arg, i)
    /\ i + 1 >= Len(arg.checkpoints) - 1
    /\ comp' = [cpu  |-> Padded(comp.cpu, PAD_FRAMES),
                scr  |-> Padded(comp.scr, PAD_FRAMES),
                mdm  |-> Padded(comp.mdm, PAD_FRAMES),
                misc |-> Padded(comp.misc, PAD_FRAMES)]
    /\ labels' = Padded(labels, PAD_FRAMES)
    /\ pc' = "padded"
    /\ UNCHANGED <<fn, arg, err, i, j, t_h, p_sys, p, soc, temp, tape, draws, runs, mean_y,
                   p_start, p_end>>

----------------------------------------------------------------------------
Calls == FixedCalls \cup MoreCalls \cup LiveCalls \cup ComposeCalls

Init ==
    /\ arg \in Calls
    /\ fn = arg.fn
    /\ pc = "start" /\ err = "-"
    /\ i = 0 /\ j = 0
    /\ t_h = <<>> /\ p_sys = <<>> /\ p = 0 /\ soc = <<>> /\ temp = <<>>
    /\ tape = <<>> /\ draws = <<>>
    /\ runs = <<>> /\ mean_y = <<>>
    /\ p_start = <<>> /\ p_end = <<>>
    /\ comp = [cpu |-> <<>>, scr |-> <<>>, mdm |-> <<>>, misc |-> <<>>]
    /\ labels = <<>>

Next ==
    \/ FixedAlloc
    \/ FixedStep
    \/ FixedReturn
    \/ MoreSetup
    \/ MoreStep
    \/ MoreRelax
    \/ MoreReturn
    \/ LiveSetup
    \/ LiveSocStep
    \/ LiveTempStart
    \/ LiveTempStep
    \/ LiveReturn
    \/ EnsembleAppend
    \/ Update
    \/ ComposeSetup
    \/ ComposeStep
    \/ ComposeNextSegment
    \/ ComposePad

Spec == Init /\ [][Next]_vars

----------------------------------------------------------------------------
(* Properties *)

Last(a) == a[Len(a)]

NonIncreasing(a) == \A k \in 1..(Len(a) - 1) : a[k + 1] <= a[k]

InUnit(a) == \A k \in 1..Len(a) : 0 <= a[k] /\ a[k] <= Micro

FixedReturned == fn = "simulate_scenario_fixed" /\ pc = "returned"

MoreReturned == fn = "simulate_scenario" /\ pc = "returned"

LiveReturned == fn = "make_stochastic_gif" /\ pc = "live_returned"

\* capacity > 0 and time step > 0; the other two functions fix both
ValidConfig == fn = "simulate_scenario" => (arg.e_max > 0 /\ arg.dt_s > 0)

\* C1: every trajectory the three integrators produce for a valid
\* configuration has soc non-increasing and within [0, 1]
C1_SocMonotoneInUnit ==
    ((FixedReturned \/ MoreReturned \/ LiveReturned) /\ ValidConfig)
        => (NonIncreasing(soc) /\ InUnit(soc))

\* C1, the part the code keeps: the two clamped integrators
C1_ClampedIntegrators ==
    ((FixedReturned \/ MoreReturned) /\ ValidConfig)
        => (NonIncreasing(soc) /\ InUnit(soc))

\* C2 as claimed: length <= steps, and the last soc is 0 iff the trajectory
\* was cut short
C2_TruncateIff ==
    FixedReturned =>
        /\ Len(soc) <= Steps(arg)
        /\ (Last(soc) = 0) <=> (Len(soc) < Steps(arg))

\* C2 amended: length <= steps; a trajectory cut short ends with soc = 0; a
\* trajectory ends with soc = 0 exactly when its last step depleted the
\* battery, which also happens at full length
C2_TruncateIf ==
    FixedReturned =>
        /\ Len(soc) <= Steps(arg)
        /\ (Len(soc) < Steps(arg)) => (Last(soc) = 0)
        /\ (Last(soc) = 0) => (Len(soc) >= 2 /\ soc[Len(soc) - 1] > 0)

C2_CutShort == FixedReturned /\ Len(soc) < Steps(arg) /\ Last(soc) = 0

\* once soc is 0 it stays 0
PinnedAtZero(a) == \A k \in 1..(Len(a) - 1) : (a[k] = 0) => (a[k + 1] = 0)

\* after depletion the temperature does not move away from ambient
RelaxesToAmbient ==
    \A k \in 1..(Len(soc) - 1) :
        (soc[k] = 0) => (Abs(temp[k + 1] - arg.t_amb) <= Abs(temp[k] - arg.t_amb))

StableStep == (2 * more_R_TH_NUM * more_C_TH) \div more_R_TH_DEN

IdleRun ==
    FixedReturned /\ arg.s_name = "Idle" /\ arg.duration = DEFAULT_DURATION_H * 60

StrictlyDecreasingTo(a, n) == Len(a) >= n /\ \A k \in 1..(n - 1) : a[k + 1] < a[k]

\* C4 as claimed: soc strictly decreasing over the first 60 samples and
\* exactly 0 at some step <= 720
C4_IdleDepletes ==
    IdleRun => (StrictlyDecreasingTo(soc, 60) /\ \E k \in 1..Len(soc) : soc[k] = 0)

\* C4 amended: soc strictly decreasing over the first 60 samples, and the run
\* keeps all 720 samples with soc > 0 throughout
C4_IdleSurvives ==
    IdleRun =>
        /\ StrictlyDecreasingTo(soc, 60)
        /\ Len(soc) = Steps(arg)
        /\ \A k \in 1..Len(soc) : soc[k] > 0

C4_IdleRan == IdleRun /\ Len(soc) = 720 /\ Last(soc) < Micro

\* the Gaming run of one hour at 25 C
GamingHour == FixedReturned /\ arg.s_name = "Gaming" /\ arg.duration = 60

\* C5: in the Gaming hour the temperature does not fall at any step at which
\* soc is still positive
C5_GamingHeats ==
    GamingHour =>
        \A k \in 1..(Len(temp) - 1) : (soc[k] > 0) => (temp[k + 1] >= temp[k])

C5_GamingRan ==
    GamingHour /\ Len(temp) = 60 /\ Last(soc) > 0 /\ Last(temp) > temp[1]

\* p_cpu + p_scr + p_mdm + p_misc
CompSum(c) == c[1] + c[2] + c[3] + c[4]

\* the temperature the integrator's last step read
StepTemp == IF pc = "returned" THEN temp[Len(temp) - 1] ELSE temp[i]

FixedStepped ==
    /\ fn = "simulate_scenario_fixed" /\ arg.s_name \in ScenarioNames
    /\ pc \in {"loop", "returned"} /\ Len(temp) >= 2 /\ (pc = "loop" => i >= 1)

Composing == fn = "make_power_breakdown_gif" /\ pc \in {"segment", "padded"}

\* C6 as claimed: the components sum to the power get_scenario_power gives at
\* the same temperature, the power the integrator used in its step
C6_BreakdownIsStepPower ==
    FixedStepped =>
        /\ CompSum(get_comp_power(arg.s_name)) = get_scenario_power(arg.s_name, StepTemp)
        /\ CompSum(get_comp_power(arg.s_name)) = p

\* C6 amended: the components sum to get_scenario_power at temp_sim = 35 C; the
\* integrator's step power differs from that sum by the CPU feedback between
\* its own temperature and 35 C
C6_BreakdownAtTempSim ==
    /\ Composing =>
        /\ CompSum(p_start) = get_scenario_power(StartMode(arg, i), TEMP_SIM)
        /\ CompSum(p_end) = get_scenario_power(EndMode(arg, i), TEMP_SIM)
    /\ FixedStepped =>
        p - CompSum(get_comp_power(arg.s_name))
            = ProcPower(scenarios_params[arg.s_name], StepTemp)
              - ProcPower(scenarios_params[arg.s_name], TEMP_SIM)

C6_GamingBreakdown ==
    /\ Composing /\ StartMode(arg, i) = "Gaming"
    /\ CompSum(p_start) = get_scenario_power("Gaming", TEMP_SIM)
    /\ CompSum(p_start) # get_scenario_power("Gaming", T_AMB)

\* every draw of every run made so far is 0: every noise factor is 1
ZeroNoise == \A r \in 1..Len(draws) : \A k \in 1..Len(draws[r]) : draws[r][k] = 0

\* a is the soc series of the noise-free simulation: it starts at 1 and every
\* step drains the phase power plus the idle floor, without any noise factor
NoiseFree(a) ==
    /\ Len(a) = Len(t_h) /\ a[1] = Micro
    /\ \A k \in 1..(Len(a) - 1) :
         a[k + 1] = a[k] - MulDiv(LivePhasePower(t_h[k]) + live_P_IDLE, arg.dt_s,
                                  3600 * live_E_MAX_WH)

EnsembleDone == fn = "make_stochastic_gif" /\ pc = "animate"

\* C7 as claimed: with zero noise the runs of an ensemble are identical to one
\* another and to the noise-free simulation, and the mean line is the line of
\* each run
C7_ZeroNoiseEnsemble ==
    (EnsembleDone /\ ZeroNoise) =>
        /\ Len(runs) = arg.n_runs
        /\ \A r \in 1..Len(runs) : runs[r] = runs[1] /\ NoiseFree(runs[r])
        /\ \A r \in 1..Len(runs) : mean_y = RunLine(r, Len(mean_y))

\* a and b differ by no more than the rounding of a sum of n terms: n units in
\* the last place of the significand
WithinRounding(a, b, n) ==
    /\ Len(a) = Len(b)
    /\ \A k \in 1..Len(a) : Abs(a[k] - b[k]) <= Quot(n * Abs(b[k]), 2^(MANT_BITS - 1))

\* C7 amended: with zero noise the runs are identical to one another and to
\* the noise-free simulation; the mean line is the line of each run exactly
\* for one or two runs, and within the rounding of the sum for more
C7_ZeroNoiseUpToRounding ==
    (EnsembleDone /\ ZeroNoise) =>
        /\ Len(runs) = arg.n_runs
        /\ \A r \in 1..Len(runs) : runs[r] = runs[1] /\ NoiseFree(runs[r])
        /\ \A r \in 1..Len(runs) :
             /\ WithinRounding(mean_y, RunLine(r, Len(mean_y)), Len(runs))
             /\ (Len(runs) <= 2) => (mean_y = RunLine(r, Len(mean_y)))

C7_MeanOfThree ==
    /\ EnsembleDone /\ ZeroNoise /\ Len(runs) >= 3 /\ Len(mean_y) >= live_FRAME_STRIDE
    /\ mean_y # RunLine(1, Len(mean_y))

\* the step emitted last was the midpoint of an even segment
AtMidpoint ==
    /\ fn = "make_power_breakdown_gif" /\ pc = "segment"
    /\ Dur(arg, i) % 2 = 0 /\ j = (Dur(arg, i) \div 2) + 1

Emitted == <<Last(comp.cpu), Last(comp.scr), Last(comp.mdm), Last(comp.misc)>>

\* the arithmetic mean of two fixed-point values lies between these
MeanLow(a, b) == (a + b) \div 2
MeanHigh(a, b) == (a + b + 1) \div 2

\* C8 as claimed: at the midpoint of an even segment every emitted component
\* is the mean of its values in the start and the end scenario
C8_MidpointIsMean ==
    AtMidpoint =>
        \A n \in 1..4 :
            Emitted[n] \in {MeanLow(p_start[n], p_end[n]), MeanHigh(p_start[n], p_end[n])}

\* the draw of the step emitted last
LastDraw == Draw(tape, Len(labels) - 1)

\* C8 amended: every emitted component is that mean times the step's jitter
\* factor, one factor for the four components
C8_MidpointJittered ==
    AtMidpoint =>
        \A n \in 1..4 :
            Emitted[n] \in {Jitter(MeanLow(p_start[n], p_end[n]), LastDraw),
                            Jitter(MeanHigh(p_start[n], p_end[n]), LastDraw)}

C8_JitteredMidpoint ==
    /\ AtMidpoint /\ LastDraw # 0 /\ p_start # p_end
    /\ Emitted[1] # MeanLow(p_start[1], p_end[1])

\* C9: a call with capacity <= 0 or dt_s <= 0 ends in an error before the
\* first step; no step is computed and nothing is returned
C9_ConfigRejected ==
    (fn = "simulate_scenario" /\ (arg.e_max <= 0 \/ arg.dt_s <= 0))
        => (pc # "returned" /\ pc # "relax" /\ p = 0)

\* C10: a call with an unknown scenario name ends in the lookup error and
\* never returns a trajectory, whatever the duration
C10_UnknownRejected ==
    (fn = "simulate_scenario_fixed" /\ arg.s_name \notin ScenarioNames)
        => (pc # "returned" /\ (pc = "raised" => err = "KeyError"))

StrictlyIncreasing(a) == \A k \in 1..(Len(a) - 1) : a[k] < a[k + 1]

\* i * dt_h in millionths of an hour, for the 0-based sample i and dt_s seconds
GridTime(n, dt_s) == MulDiv(n * dt_s, Micro, 3600)

\* a[i] = i * dt_h for every sample, up to the last decimal kept
OnGrid(a, dt_s) == \A k \in 1..Len(a) : Abs(a[k] - GridTime(k - 1, dt_s)) <= 1

\* C11: every trajectory of simulate_scenario and simulate_scenario_fixed has
\* a strictly increasing time axis with t_h[i] = i * dt_h, dt_h the step that
\* the soc and temperature updates use (60 s in simulate_scenario_fixed)
C11_TimeOnGrid ==
    /\ (MoreReturned /\ ValidConfig) => (StrictlyIncreasing(t_h) /\ OnGrid(t_h, arg.dt_s))
    /\ FixedReturned => (StrictlyIncreasing(t_h) /\ OnGrid(t_h, 60))

\* C11, the part the code keeps: both axes are strictly increasing and the
\* axis of simulate_scenario is on the grid of its step
C11_TimeIncreasing ==
    /\ (MoreReturned /\ ValidConfig) => (StrictlyIncreasing(t_h) /\ OnGrid(t_h, arg.dt_s))
    /\ FixedReturned => StrictlyIncreasing(t_h)

\* C12: a trajectory returned by simulate_scenario_fixed ends at the step
\* where soc first reaches 0: every sample but the last has soc > 0, the first
\* sample has soc = 1 and temp = ambient, and the three series are equally long
C12_EndsAtFirstZero ==
    FixedReturned =>
        /\ \A k \in 1..(Len(soc) - 1) : soc[k] > 0
        /\ soc[1] = Micro /\ temp[1] = T_AMB
        /\ Len(t_h) = Len(soc) /\ Len(temp) = Len(soc)

C12_Depleted ==
    /\ FixedReturned /\ Len(soc) >= 3 /\ Last(soc) = 0 /\ soc[Len(soc) - 1] > 0
    /\ Len(t_h) = Len(soc) /\ Len(soc) + 1 < Steps(arg)

\* the steps of a trajectory taken with soc > 0
ActiveSteps == {k \in 1..(Len(soc) - 1) : soc[k] > 0}

\* soc drained by the power pw over dt_s seconds out of e_max Wh, clamped at 0
Drained(soc_k, pw, dt_s, e_max) == Max(0, soc_k - MulDiv(pw, dt_s, 3600 * e_max))

\* temperature after dt_s seconds of the heat pw against the loss to t_amb
Heated(temp_k, pw, dt_s, t_amb) ==
    temp_k + (Quot(pw, more_C_TH)
              - Quot(temp_k - t_amb, (more_R_TH_NUM * more_C_TH) \div more_R_TH_DEN)) * dt_s

\* simulate_scenario_fixed has no idle draw of its own: one total, the power
\* of the scenario at temp[i], drains the battery and heats the device
FixedStepsUseTotal ==
    (FixedReturned /\ arg.s_name \in ScenarioNames) =>
        \A k \in ActiveSteps :
            LET pw == get_scenario_power(arg.s_name, temp[k])
            IN  /\ soc[k + 1] = Max(0, soc[k] - Quot(pw, E_MAX_WH * 60))
                /\ temp[k + 1] = temp[k]
                     + Quot((pw - Quot((temp[k] - T_AMB) * R_TH_DEN, R_TH_NUM)) * 60, C_TH)

\* C13 as claimed: in every active step the soc decrement is
\* (p_total + idle draw) * dt_h / capacity clamped at 0, and the heat
\* generation is p_total alone, without the idle draw
C13_IdleDrainsOnly ==
    /\ (MoreReturned /\ ValidConfig) =>
          \A k \in ActiveSteps :
              /\ soc[k + 1] = Drained(soc[k], p_sys[k] + more_P_IDLE, arg.dt_s, arg.e_max)
              /\ temp[k + 1] = Heated(temp[k], p_sys[k], arg.dt_s, arg.t_amb)
    /\ FixedStepsUseTotal

\* C13 amended: in every active step the soc decrement is
\* (p_total + idle draw) * dt_h / capacity clamped at 0, and the heat
\* generation is the same p_total + idle draw
C13_IdleDrainsAndHeats ==
    /\ (MoreReturned /\ ValidConfig) =>
          \A k \in ActiveSteps :
              /\ soc[k + 1] = Drained(soc[k], p_sys[k] + more_P_IDLE, arg.dt_s, arg.e_max)
              /\ temp[k + 1] = Heated(temp[k], p_sys[k] + more_P_IDLE, arg.dt_s, arg.t_amb)
    /\ FixedStepsUseTotal

C13_ActiveSteps ==
    /\ MoreReturned /\ ValidConfig /\ Len(soc) >= 3 /\ soc[2] > 0 /\ soc[2] < soc[1]
    /\ temp[2] = Heated(temp[1], p_sys[1] + more_P_IDLE, arg.dt_s, arg.t_amb)
    /\ temp[2] # Heated(temp[1], p_sys[1], arg.dt_s, arg.t_amb)

\* every step of the segment under way has been emitted
SegmentDone ==
    fn = "make_power_breakdown_gif" /\ pc = "segment" /\ j = Dur(arg, i)

\* the label of step s (0-based) of the segment just emitted
SegLabel(s) == labels[Len(labels) - Dur(arg, i) + s + 1]

\* the segment's labels come in three contiguous blocks, the first of n_start
\* steps and the last of n_end steps
ThreeBlocks(n_start, n_end) ==
    \A s \in 0..(Dur(arg, i) - 1) :
        SegLabel(s) = IF s < n_start THEN <<"MODE", StartMode(arg, i)>>
                      ELSE IF s >= Dur(arg, i) - n_end THEN <<"MODE", EndMode(arg, i)>>
                      ELSE <<"SWITCHING TO", EndMode(arg, i)>>

\* one label per emitted value of every component
LabelsAligned ==
    fn = "make_power_breakdown_gif" =>
        /\ Len(labels) = Len(comp.cpu) /\ Len(labels) = Len(comp.scr)
        /\ Len(labels) = Len(comp.mdm) /\ Len(labels) = Len(comp.misc)

\* C14 as claimed: a segment of d steps (d a multiple of 5, so that 20% is a
\* number of steps) is labelled d/5 steps "MODE: start", 3d/5 steps
\* "SWITCHING TO end", d/5 steps "MODE: end"; labels are as long as each
\* component sequence
C14_Blocks20_60_20 ==
    /\ (SegmentDone /\ Dur(arg, i) % 5 = 0)
          => ThreeBlocks(Dur(arg, i) \div 5, Dur(arg, i) \div 5)
    /\ LabelsAligned

\* C14 amended: the first block has the steps with step < d/5, ceil(d/5) of
\* them, the last block the steps with step > 4d/5, d - 1 - floor(4d/5) of
\* them, the middle block the rest; labels are as long as each component
\* sequence
C14_BlocksStrict ==
    /\ SegmentDone
          => ThreeBlocks((Dur(arg, i) + 4) \div 5,
                         Dur(arg, i) - 1 - ((4 * Dur(arg, i)) \div 5))
    /\ LabelsAligned

C14_SegmentLabelled ==
    /\ SegmentDone /\ Dur(arg, i) % 5 = 0 /\ Dur(arg, i) >= 10
    /\ SegLabel(0) = <<"MODE", StartMode(arg, i)>>
    /\ SegLabel((4 * Dur(arg, i)) \div 5) = <<"SWITCHING TO", EndMode(arg, i)>>
    /\ SegLabel(Dur(arg, i) - 1) = <<"MODE", EndMode(arg, i)>>

====
